---- MODULE Spec2Model ----
(***************************************************************************)
(* Stereo alignment and crosstalk scripts of the repository:               *)
(*   src/CV/correctDisp.py    vertical-disparity filter, scale+shift       *)
(*                            optimisation, affine warps                   *)
(*   src/CV/XTalk-analysis.py crosstalk pipeline (main) and its helpers    *)
(*                                                                         *)
(* Fixed-point conventions                                                 *)
(*   pixel coordinates          integers (pixels)                          *)
(*   scaling, matrix entries    hundredths (100 = 1.0)                     *)
(*   adjusted keypoints         hundredths of a pixel                      *)
(*   linear colour samples      millionths (1000000 = 1.0)                 *)
(* Images are modelled by one column (x = 0): a sequence of rows.          *)
(***************************************************************************)
EXTENDS Integers, Sequences, FiniteSets, TLC

VARIABLES
    \* ---- correctDisp.py, cells "Step 1: Detect Keypoints" .. "Step 5"
    dpc,                        \* position in the script
    image_height,               \* left_image_color.shape[0]
    matches,                    \* bf.match(...) result
    k,                          \* loop index of "for match in matches"
    filtered_matches,
    left_points, right_points,  \* np.float32([...pt for m in filtered_matches])
    result,                     \* result.x of minimize: [y_translation, scaling]
    adjusted_right_points,      \* local of compute_rms_disparity at result.x
    affine_matrix,
    adjusted_right_image_color,
    written,                    \* files written by cv2.imwrite
    error,                      \* uncaught exception ending the script, or "none"
    \* ---- XTalk-analysis.py, main
    xpc,                        \* position in main
    env,                        \* the files and what the detectors find in them
    left_image, right_image,
    left_image_linear, right_image_linear,
    contours_left, approx_left,
    contours_right, approx_right,
    warped_left, warped_right,
    left_crosstalk, right_crosstalk,
    printed,                    \* messages printed, in order
    returned,                   \* the value main returned, once it has
    calls,                      \* helper calls made, in order
    \* ---- the three warps of the two scripts, each on a column
    wop,                        \* the warp applied, or "none"
    wsrc,                       \* its source column
    wcoord,                     \* the source coordinate of each destination row
    wdst,                       \* its result
    \* ---- XTalk-analysis.py, order_points
    opc,                        \* position in order_points
    approx,                     \* its argument pts: four points <<x, y>>
    rect                        \* its result: tl, tr, br, bl

dispVars == <<dpc, image_height, matches, k, filtered_matches, left_points,
              right_points, result, adjusted_right_points, affine_matrix,
              adjusted_right_image_color, written, error>>

xtVars == <<xpc, env, left_image, right_image, left_image_linear,
            right_image_linear, contours_left, approx_left, contours_right,
            approx_right, warped_left, warped_right, left_crosstalk,
            right_crosstalk, printed, returned, calls>>

warpVars == <<wop, wsrc, wcoord, wdst>>

ordVars == <<opc, approx, rect>>

vars == <<dispVars, xtVars, warpVars, ordVars>>

Abs(x) == IF x < 0 THEN -x ELSE x

Range(s) == {s[j] : j \in DOMAIN s}

(***************************************************************************)
(* Bounds of the model.                                                    *)
(***************************************************************************)
MaxMatches == 4
MaxShift == 8

\* Image heights: 3% of them is 3 and 6 pixels.
Heights == {100, 200}

\* 1.0 in hundredths: the seed scaling of initial_guess = [0, 1.0].
InitialScaling == 100

\* correctDisp.py:131  initial_guess = [0, 1.0]
initial_guess == [y_translation |-> 0, scaling |-> InitialScaling]

\* Scalings the minimiser may return (hundredths).
ScaleGrid == {90, 95, 100, 105, 110}
ShiftGrid == (0 - MaxShift) .. MaxShift

(***************************************************************************)
(* Keypoints of the two images (orb.detectAndCompute).  Vertical           *)
(* disparities left.y - right.y: -5, -5, 1, 2, -6, 3, 7.                   *)
(***************************************************************************)
keypoints_left ==
    << [x |-> 30, y |-> 10], [x |-> 50, y |-> 40], [x |-> 28, y |-> 21],
       [x |-> 60, y |-> 42], [x |-> 35, y |-> 30], [x |-> 70, y |-> 63],
       [x |-> 44, y |-> 50] >>

keypoints_right ==
    << [x |-> 22, y |-> 15], [x |-> 41, y |-> 45], [x |-> 20, y |-> 20],
       [x |-> 40, y |-> 40], [x |-> 27, y |-> 36], [x |-> 60, y |-> 60],
       [x |-> 36, y |-> 43] >>

\* A DMatch of cv2.BFMatcher(crossCheck=True): each keypoint is matched at most once.
DMatch(q) == [queryIdx |-> q, trainIdx |-> q]

InjectiveSeqs(S, n) ==
    {s \in [1..n -> S] : \A a, b \in 1..n : a # b => s[a] # s[b]}

MatchLists ==
    UNION {InjectiveSeqs({DMatch(q) : q \in DOMAIN keypoints_left}, n) :
           n \in 0..MaxMatches}

\* The right image, column x = 0: distinct non-zero 8-bit samples.
right_image_color(h) == [r \in 1..h |-> 20 + r]

(***************************************************************************)
(* correctDisp.py:88  threshold = 0.03 * image_height, kept as the         *)
(* fraction ThresholdNum/ThresholdDen of the height.                       *)
(***************************************************************************)
ThresholdNum == 3
ThresholdDen == 100

\* correctDisp.py:93  vertical_disparity = abs(left_point[1] - right_point[1])
vertical_disparity(match) ==
    Abs(keypoints_left[match.queryIdx].y - keypoints_right[match.trainIdx].y)

\* correctDisp.py:95  if vertical_disparity <= threshold
KeepMatch_strict(match, h) ==
    ThresholdDen * vertical_disparity(match) < ThresholdNum * h

KeepMatch(match, h) ==
    ThresholdDen * vertical_disparity(match) <= ThresholdNum * h

DispInit ==
    /\ dpc = "filter"
    /\ image_height \in Heights
    /\ matches \in MatchLists
    /\ k = 1
    /\ filtered_matches = << >>
    /\ left_points = << >>
    /\ right_points = << >>
    /\ result = initial_guess              \* the seed, until minimize returns
    /\ adjusted_right_points = << >>
    /\ affine_matrix = << >>
    /\ adjusted_right_image_color = << >>
    /\ written = {}
    /\ error = "none"

\* correctDisp.py:90-96  one iteration of "for match in matches"
FilterStep ==
    /\ dpc = "filter"
    /\ k <= Len(matches)
    /\ filtered_matches' =
          IF KeepMatch(matches[k], image_height)
          THEN Append(filtered_matches, matches[k])
          ELSE filtered_matches
    /\ k' = k + 1
    /\ UNCHANGED <<dpc, image_height, matches, left_points, right_points, result,
                   adjusted_right_points, affine_matrix,
                   adjusted_right_image_color, written, error>>
    /\ UNCHANGED <<xtVars, warpVars, ordVars>>

\* correctDisp.py:115-116  left_points, right_points from the filtered matches
Collect ==
    /\ dpc = "filter"
    /\ k > Len(matches)
    /\ left_points' = [j \in DOMAIN filtered_matches |->
                          keypoints_left[filtered_matches[j].queryIdx]]
    /\ right_points' = [j \in DOMAIN filtered_matches |->
                          keypoints_right[filtered_matches[j].trainIdx]]
    /\ dpc' = "minimize"
    /\ UNCHANGED <<image_height, matches, k, filtered_matches, result,
                   adjusted_right_points, affine_matrix,
                   adjusted_right_image_color, written, error>>
    /\ UNCHANGED <<xtVars, warpVars, ordVars>>

(***************************************************************************)
(* correctDisp.py:118-127  compute_rms_disparity                           *)
(***************************************************************************)
\* correctDisp.py:120-122 with the shift subtracted instead of added
AdjustedRightPoints_flipped(y_translation, scaling, rp) ==
    [j \in DOMAIN rp |-> [x |-> rp[j].x * scaling,
                          y |-> rp[j].y * scaling - 100 * y_translation]]

\* correctDisp.py:120-122 with the x column left alone
AdjustedRightPoints_yonly(y_translation, scaling, rp) ==
    [j \in DOMAIN rp |-> [x |-> rp[j].x * 100,
                          y |-> rp[j].y * scaling + 100 * y_translation]]

\* correctDisp.py:120-122  adjusted_right_points (hundredths of a pixel):
\*   [:, 0] *= scaling ;  [:, 1] = [:, 1] * scaling + y_translation
AdjustedRightPoints(y_translation, scaling, rp) ==
    [j \in DOMAIN rp |-> [x |-> rp[j].x * scaling,
                          y |-> rp[j].y * scaling + 100 * y_translation]]

RECURSIVE SumSq(_, _)
SumSq(d, n) == IF n = 0 THEN 0 ELSE d[n] * d[n] + SumSq(d, n - 1)

\* correctDisp.py:125-126  vertical_disparity = left_y - adjusted_right_y and
\* its mean square.  The value is n * (100 * rms)^2, of which rms is a
\* monotone function for the fixed n of one run.
compute_rms_disparity(y_translation, scaling, lp, rp) ==
    LET adj == AdjustedRightPoints(y_translation, scaling, rp)
        vd  == [j \in DOMAIN lp |-> 100 * lp[j].y - adj[j].y]
    IN  SumSq(vd, Len(lp))

(***************************************************************************)
(* correctDisp.py:131-137  minimize(..., initial_guess, method='Powell').   *)
(* Powell's search minimises along y_translation first, with the scaling   *)
(* of the seed, then along scaling, and repeats with updated directions    *)
(* until nothing improves.  The objective is the square root of a convex   *)
(* quadratic, so the search ends at a global minimiser: the one on the     *)
(* first search line when there is one (nothing improves after the first   *)
(* line search), any of them otherwise.  Parameters are resolved to        *)
(* ShiftGrid x ScaleGrid.                                                  *)
(***************************************************************************)
Params == [y_translation : ShiftGrid, scaling : ScaleGrid]

SetMin(S) == CHOOSE v \in S : \A w \in S : v <= w

PowellMinimisers(seed, lp, rp) ==
    LET fun(p) == compute_rms_disparity(p.y_translation, p.scaling, lp, rp)
        fmin   == SetMin({fun(p) : p \in Params})
        global == {p \in Params : fun(p) = fmin}
        first  == {p \in global : p.scaling = seed.scaling}
    IN  IF first # {} THEN first ELSE global

\* correctDisp.py:134-137.  With no filtered match np.float32([]) is
\* one-dimensional and right_points[:, 0] raises IndexError on the first
\* evaluation of the objective.
Minimize ==
    /\ dpc = "minimize"
    /\ IF Len(left_points) = 0
       THEN /\ dpc' = "crashed"
            /\ error' = "IndexError"
            /\ UNCHANGED <<result, adjusted_right_points>>
       ELSE /\ \E p \in PowellMinimisers(initial_guess, left_points, right_points) :
                 /\ result' = p
                 /\ adjusted_right_points' =
                       AdjustedRightPoints(p.y_translation, p.scaling, right_points)
            /\ dpc' = "affine"
            /\ UNCHANGED error
    /\ UNCHANGED <<image_height, matches, k, filtered_matches, left_points,
                   right_points, affine_matrix, adjusted_right_image_color,
                   written>>
    /\ UNCHANGED <<xtVars, warpVars, ordVars>>

\* correctDisp.py:146  [[s, 0, 0], [0, s, y_translation]] in hundredths
AffineMatrix(p) ==
    << <<p.scaling, 0, 0>>, <<0, p.scaling, 100 * p.y_translation>> >>

Affine ==
    /\ dpc = "affine"
    /\ affine_matrix' = AffineMatrix(result)
    /\ dpc' = "warp"
    /\ UNCHANGED <<image_height, matches, k, filtered_matches, left_points,
                   right_points, result, adjusted_right_points,
                   adjusted_right_image_color, written, error>>
    /\ UNCHANGED <<xtVars, warpVars, ordVars>>

(***************************************************************************)
(* cv2.warpAffine / cv2.warpPerspective on one column.  For a destination  *)
(* row the source coordinate is the rational num/den; the sample is the    *)
(* linear interpolation (INTER_LINEAR) of rows floor and floor + 1, each   *)
(* read through the border mode.                                           *)
(***************************************************************************)
BORDER_CONSTANT == "BORDER_CONSTANT"
BORDER_REPLICATE == "BORDER_REPLICATE"

Clamp(v, lo, hi) == IF v < lo THEN lo ELSE IF v > hi THEN hi ELSE v

\* Row r (0-based) of src read through borderMode; borderValue is 0.
BorderSample(src, r, borderMode) ==
    IF r >= 0 /\ r < Len(src) THEN src[r + 1]
    ELSE IF borderMode = BORDER_REPLICATE
         THEN src[Clamp(r, 0, Len(src) - 1) + 1]
         ELSE 0

Interpolate(src, num, den, borderMode) ==
    LET r0 == num \div den
        f  == num - r0 * den
    IN  ((den - f) * BorderSample(src, r0, borderMode)
          + f * BorderSample(src, r0 + 1, borderMode) + den \div 2) \div den

\* The rows of dst sampled at the source coordinates coords.
Remap(src, coords, borderMode) ==
    [d \in DOMAIN coords |->
        Interpolate(src, coords[d].num, coords[d].den, borderMode)]

\* warpAffine maps source to destination, dst_y = (M[2][2] * src_y + M[2][3]) / 100,
\* so destination row d (from 1) reads source row (100 * (d - 1) - M[2][3]) / M[2][2].
AffineSource(M, h) ==
    [d \in 1..h |-> [num |-> 100 * (d - 1) - M[2][3], den |-> M[2][2]]]

\* cv2.warpAffine(src, M, (w, h), flags=cv2.INTER_LINEAR, borderMode=...)
warpAffine(src, M, h, borderMode) == Remap(src, AffineSource(M, h), borderMode)

\* correctDisp.py:149
Warp ==
    /\ dpc = "warp"
    /\ adjusted_right_image_color' =
          warpAffine(right_image_color(image_height), affine_matrix,
                     image_height, BORDER_REPLICATE)
    /\ dpc' = "save"
    /\ UNCHANGED <<image_height, matches, k, filtered_matches, left_points,
                   right_points, result, adjusted_right_points, affine_matrix,
                   written, error>>
    /\ UNCHANGED <<xtVars, warpVars, ordVars>>

\* correctDisp.py:174  cv2.imwrite('output/albedo_1_cor.jpg', ...)
Save ==
    /\ dpc = "save"
    /\ written' = written \cup {"output/albedo_1_cor.jpg"}
    /\ dpc' = "done"
    /\ UNCHANGED <<image_height, matches, k, filtered_matches, left_points,
                   right_points, result, adjusted_right_points, affine_matrix,
                   adjusted_right_image_color, error>>
    /\ UNCHANGED <<xtVars, warpVars, ordVars>>

DispNext == FilterStep \/ Collect \/ Minimize \/ Affine \/ Warp \/ Save

\* The alignment script is not running.
DispIdle ==
    /\ dpc = "idle"
    /\ image_height = 0
    /\ matches = << >>
    /\ k = 1
    /\ filtered_matches = << >>
    /\ left_points = << >>
    /\ right_points = << >>
    /\ result = initial_guess
    /\ adjusted_right_points = << >>
    /\ affine_matrix = << >>
    /\ adjusted_right_image_color = << >>
    /\ written = {}
    /\ error = "none"

(***************************************************************************)
(* XTalk-analysis.py.  An image is one pixel <<B, G, R>> with the colour    *)
(* space its samples are in: 8-bit sRGB samples as read, linear samples    *)
(* in millionths after sRGB_to_linearRGB.                                  *)
(***************************************************************************)
\* Python's None as returned by main, and as an image that is not there.
None == "None"
NoImage == [colorSpace |-> None, rectified |-> FALSE, pix |-> << >>]
Unbound == [num |-> 0, den |-> 0]

\* 1.0 in millionths; the epsilon 1e-6 of compute_crosstalk is one unit.
Micro == 1000000
Eps == 1

MaxContours == 2
MaxCorners == 5

\* floor(a * b / Micro) for 0 <= a, b <= Micro, in 32-bit steps.
MulFix(a, b) ==
    LET a1 == a \div 1000
        a0 == a % 1000
        b1 == b \div 1000
        b0 == b % 1000
    IN  a1 * b1 + ((a1 * b0 + a0 * b1) * 1000 + a0 * b0) \div Micro

Pow5(z) == MulFix(MulFix(MulFix(MulFix(z, z), z), z), z)

\* The largest z in lo..hi with z^5 <= y (lo satisfies it).
RECURSIVE Root5(_, _, _)
Root5(y, lo, hi) ==
    IF lo >= hi THEN lo
    ELSE LET mid == (lo + hi + 1) \div 2
         IN  IF Pow5(mid) <= y THEN Root5(y, mid, hi) ELSE Root5(y, lo, mid - 1)

\* y ** 2.4 = (y ** (1/5)) ** 12 for 0 <= y <= 1, rounded down.
Pow24(y) ==
    LET r  == Root5(y, 0, Micro)
        r2 == MulFix(r, r)
        r4 == MulFix(r2, r2)
        r8 == MulFix(r4, r4)
    IN  MulFix(r8, r4)

\* XTalk-analysis.py:46  image / 255.0
Normalize(c8) == (c8 * Micro) \div 255

\* XTalk-analysis.py:47  mask = image <= 0.04045
Mask(c) == c <= 40450

\* XTalk-analysis.py:48  image[mask] / 12.92
LowBranch(c) == (c * 100) \div 1292

\* XTalk-analysis.py:49  ((image[~mask] + 0.055) / 1.055) ** 2.4
HighBranch(c) == Pow24(((c + 55000) * 1000) \div 1055)

\* XTalk-analysis.py:46-50 with the two branches exchanged
LinearSamples_swapped(samples) ==
    LET image == [i \in DOMAIN samples |-> Normalize(samples[i])]
        mask  == [i \in DOMAIN samples |-> Mask(image[i])]
        low   == [i \in DOMAIN samples |->
                    IF mask[i] THEN HighBranch(image[i]) ELSE image[i]]
    IN  [i \in DOMAIN samples |->
            IF ~mask[i] THEN LowBranch(low[i]) ELSE low[i]]

\* XTalk-analysis.py:46-50 on the samples of an image: the mask is taken
\* once, then the two masked assignments follow one another.
LinearSamples(samples) ==
    LET image == [i \in DOMAIN samples |-> Normalize(samples[i])]
        mask  == [i \in DOMAIN samples |-> Mask(image[i])]
        low   == [i \in DOMAIN samples |->
                    IF mask[i] THEN LowBranch(image[i]) ELSE image[i]]
    IN  [i \in DOMAIN samples |->
            IF ~mask[i] THEN HighBranch(low[i]) ELSE low[i]]

\* XTalk-analysis.py:44-50  sRGB_to_linearRGB returns a new array
sRGB_to_linearRGB(image) ==
    [image EXCEPT !.colorSpace = "linearRGB", !.pix = LinearSamples(image.pix)]

\* XTalk-analysis.py:17-42  four_point_transform: the region inside the four
\* corners, samples and colour space as in the image passed.
four_point_transform(image, pts) == [image EXCEPT !.rectified = TRUE]

\* XTalk-analysis.py:55, 58 with an epsilon of 1e-3
compute_crosstalk_coarse(image_left, image_right) ==
    << [num |-> image_left.pix[1],  den |-> image_left.pix[3] + 1000],
       [num |-> image_right.pix[3], den |-> image_right.pix[1] + 1000] >>

\* XTalk-analysis.py:52-60  compute_crosstalk: blue / (red + 1e-6) of the left
\* image, red / (blue + 1e-6) of the right one, each ratio kept as num/den.
compute_crosstalk(image_left, image_right) ==
    << [num |-> image_left.pix[1],  den |-> image_left.pix[3] + Eps],
       [num |-> image_right.pix[3], den |-> image_right.pix[1] + Eps] >>

\* XTalk-analysis.py:82-83  cv2.imread: None when the file cannot be read
imread(readable, pix) ==
    IF readable THEN [colorSpace |-> "sRGB", rectified |-> FALSE, pix |-> pix]
    ELSE NoImage

\* XTalk-analysis.py:105, 121  len(approx) != 4, as "at least four"
FourCorners_atleast(n) == n >= 4

\* XTalk-analysis.py:105, 121  the negation of len(approx) != 4
FourCorners(n) == n = 4

\* XTalk-analysis.py:87, 99, 107, 115, 123: a bare return; 133: falling off
\* the end of main.  Both give the caller None.
BareReturn == None
SuccessValue == None

\* XTalk-analysis.py:126-127 passing the images as read
RectifyArguments_raw == <<left_image, right_image>>

\* XTalk-analysis.py:126-127  the images passed to four_point_transform
RectifyArguments == <<left_image_linear, right_image_linear>>

Call(fn, args) == [fn |-> fn, colorSpace |-> [i \in DOMAIN args |-> args[i].colorSpace]]

Environments(LeftPix, RightPix) ==
    [left_readable : BOOLEAN, right_readable : BOOLEAN,
     left_pix : LeftPix, right_pix : RightPix,
     contours_left : 0..MaxContours, corners_left : 3..MaxCorners,
     contours_right : 0..MaxContours, corners_right : 3..MaxCorners]

XTalkStart ==
    /\ xpc = "load"
    /\ left_image = NoImage /\ right_image = NoImage
    /\ left_image_linear = NoImage /\ right_image_linear = NoImage
    /\ contours_left = 0 /\ approx_left = 0
    /\ contours_right = 0 /\ approx_right = 0
    /\ warped_left = NoImage /\ warped_right = NoImage
    /\ left_crosstalk = Unbound /\ right_crosstalk = Unbound
    /\ printed = << >>
    /\ returned = "running"
    /\ calls = << >>

\* main is called on a red and a blue capture.
XTalkInit ==
    /\ env \in Environments({<<12, 20, 200>>, <<0, 0, 255>>}, {<<200, 30, 10>>})
    /\ XTalkStart

\* Grey 8-bit pixels, R = G = B.
Gray(g) == <<g, g, g>>

\* main is called on two all-grey captures that pass every check: the same
\* grey level in both, or the next level up in the right one.
GrayEnvironments ==
    {[left_readable |-> TRUE, right_readable |-> TRUE,
      left_pix |-> Gray(g), right_pix |-> Gray(h),
      contours_left |-> 1, corners_left |-> 4,
      contours_right |-> 1, corners_right |-> 4] :
        g \in 0..255, h \in 0..255}

XTalkGrayInit ==
    /\ env \in {e \in GrayEnvironments :
                   e.right_pix[1] - e.left_pix[1] \in {0, 1}}
    /\ XTalkStart

\* main is not running.
XTalkIdle ==
    /\ env = None
    /\ XTalkStart

\* XTalk-analysis.py:82-87
LoadImages ==
    /\ xpc = "load"
    /\ left_image' = imread(env.left_readable, env.left_pix)
    /\ right_image' = imread(env.right_readable, env.right_pix)
    /\ IF left_image' = NoImage \/ right_image' = NoImage
       THEN /\ printed' = Append(printed, "Error: One or both images not found.")
            /\ returned' = BareReturn
            /\ xpc' = "returned"
       ELSE /\ xpc' = "linearize"
            /\ UNCHANGED <<printed, returned>>
    /\ UNCHANGED <<env, left_image_linear, right_image_linear, contours_left,
                   approx_left, contours_right, approx_right, warped_left,
                   warped_right, left_crosstalk, right_crosstalk, calls>>
    /\ UNCHANGED <<dispVars, warpVars, ordVars>>

\* XTalk-analysis.py:90-91
Linearize ==
    /\ xpc = "linearize"
    /\ left_image_linear' = sRGB_to_linearRGB(left_image)
    /\ right_image_linear' = sRGB_to_linearRGB(right_image)
    /\ calls' = calls \o << Call("sRGB_to_linearRGB", <<left_image>>),
                            Call("sRGB_to_linearRGB", <<right_image>>) >>
    /\ xpc' = "detect_left"
    /\ UNCHANGED <<env, left_image, right_image, contours_left, approx_left,
                   contours_right, approx_right, warped_left, warped_right,
                   left_crosstalk, right_crosstalk, printed, returned>>
    /\ UNCHANGED <<dispVars, warpVars, ordVars>>

\* XTalk-analysis.py:94-99
DetectLeft ==
    /\ xpc = "detect_left"
    /\ contours_left' = env.contours_left
    /\ IF contours_left' = 0
       THEN /\ printed' = Append(printed, "No contours found for left image.")
            /\ returned' = BareReturn
            /\ xpc' = "returned"
       ELSE /\ xpc' = "approx_left"
            /\ UNCHANGED <<printed, returned>>
    /\ UNCHANGED <<env, left_image, right_image, left_image_linear,
                   right_image_linear, approx_left, contours_right,
                   approx_right, warped_left, warped_right, left_crosstalk,
                   right_crosstalk, calls>>
    /\ UNCHANGED <<dispVars, warpVars, ordVars>>

\* XTalk-analysis.py:102-107
ApproxLeft ==
    /\ xpc = "approx_left"
    /\ approx_left' = env.corners_left
    /\ IF ~FourCorners(approx_left')
       THEN /\ printed' = Append(printed, "Could not detect four corners for left image.")
            /\ returned' = BareReturn
            /\ xpc' = "returned"
       ELSE /\ xpc' = "detect_right"
            /\ UNCHANGED <<printed, returned>>
    /\ UNCHANGED <<env, left_image, right_image, left_image_linear,
                   right_image_linear, contours_left, contours_right,
                   approx_right, warped_left, warped_right, left_crosstalk,
                   right_crosstalk, calls>>
    /\ UNCHANGED <<dispVars, warpVars, ordVars>>

\* XTalk-analysis.py:110-115
DetectRight ==
    /\ xpc = "detect_right"
    /\ contours_right' = env.contours_right
    /\ IF contours_right' = 0
       THEN /\ printed' = Append(printed, "No contours found for right image.")
            /\ returned' = BareReturn
            /\ xpc' = "returned"
       ELSE /\ xpc' = "approx_right"
            /\ UNCHANGED <<printed, returned>>
    /\ UNCHANGED <<env, left_image, right_image, left_image_linear,
                   right_image_linear, contours_left, approx_left,
                   approx_right, warped_left, warped_right, left_crosstalk,
                   right_crosstalk, calls>>
    /\ UNCHANGED <<dispVars, warpVars, ordVars>>

\* XTalk-analysis.py:118-123
ApproxRight ==
    /\ xpc = "approx_right"
    /\ approx_right' = env.corners_right
    /\ IF ~FourCorners(approx_right')
       THEN /\ printed' = Append(printed, "Could not detect four corners for right image.")
            /\ returned' = BareReturn
            /\ xpc' = "returned"
       ELSE /\ xpc' = "rectify"
            /\ UNCHANGED <<printed, returned>>
    /\ UNCHANGED <<env, left_image, right_image, left_image_linear,
                   right_image_linear, contours_left, approx_left,
                   contours_right, warped_left, warped_right, left_crosstalk,
                   right_crosstalk, calls>>
    /\ UNCHANGED <<dispVars, warpVars, ordVars>>

\* XTalk-analysis.py:126-127
Rectify ==
    /\ xpc = "rectify"
    /\ warped_left' = four_point_transform(RectifyArguments[1], approx_left)
    /\ warped_right' = four_point_transform(RectifyArguments[2], approx_right)
    /\ calls' = calls \o << Call("four_point_transform", <<RectifyArguments[1]>>),
                            Call("four_point_transform", <<RectifyArguments[2]>>) >>
    /\ xpc' = "crosstalk"
    /\ UNCHANGED <<env, left_image, right_image, left_image_linear,
                   right_image_linear, contours_left, approx_left,
                   contours_right, approx_right, left_crosstalk,
                   right_crosstalk, printed, returned>>
    /\ UNCHANGED <<dispVars, warpVars, ordVars>>

\* XTalk-analysis.py:130
Crosstalk ==
    /\ xpc = "crosstalk"
    /\ left_crosstalk' = compute_crosstalk(warped_left, warped_right)[1]
    /\ right_crosstalk' = compute_crosstalk(warped_left, warped_right)[2]
    /\ calls' = Append(calls, Call("compute_crosstalk", <<warped_left, warped_right>>))
    /\ xpc' = "plot"
    /\ UNCHANGED <<env, left_image, right_image, left_image_linear,
                   right_image_linear, contours_left, approx_left,
                   contours_right, approx_right, warped_left, warped_right,
                   printed, returned>>
    /\ UNCHANGED <<dispVars, warpVars, ordVars>>

\* XTalk-analysis.py:133 and the end of main
Plot ==
    /\ xpc = "plot"
    /\ calls' = Append(calls, [fn |-> "plot_crosstalk_map", colorSpace |-> << >>])
    /\ returned' = SuccessValue
    /\ xpc' = "returned"
    /\ UNCHANGED <<env, left_image, right_image, left_image_linear,
                   right_image_linear, contours_left, approx_left,
                   contours_right, approx_right, warped_left, warped_right,
                   left_crosstalk, right_crosstalk, printed>>
    /\ UNCHANGED <<dispVars, warpVars, ordVars>>

XTalkNext ==
    \/ LoadImages \/ Linearize \/ DetectLeft \/ ApproxLeft \/ DetectRight
    \/ ApproxRight \/ Rectify \/ Crosstalk \/ Plot

(***************************************************************************)
(* The three warps, each applied to a column of an image.                  *)
(***************************************************************************)
MaxRows == 5

\* Columns of non-zero 8-bit samples, 4 to MaxRows rows.
WarpColumns == {[r \in 1..n |-> 40 * r + 7] : n \in 4..MaxRows}

\* correctDisp.py:39-42  shift[1] of cv2.phaseCorrelate, in hundredths of a pixel
VerticalShifts == {-250, -100, 0, 50, 300}

\* correctDisp.py:46  [[1, 0, 0], [0, 1, -vertical_shift]] in hundredths
TranslationMatrix(vertical_shift) ==
    << <<100, 0, 0>>, <<0, 100, 0 - vertical_shift>> >>

\* XTalk-analysis.py:41  cv2.warpPerspective(image, M, dsize): no borderMode
\* is passed, so OpenCV's default holds, BORDER_CONSTANT with value 0.
WarpPerspectiveBorder == BORDER_CONSTANT

\* XTalk-analysis.py:27-29  maxHeight = max(int(|tr - br|), int(|tl - bl|)) for
\* corners whose left and right edges run from row top to row bottom
MaxHeight(top, bottom) == bottom - top

\* XTalk-analysis.py:32-41  M takes row top to 0 and row bottom to
\* maxHeight - 1; destination row d (from 1) reads source row
\* top + (d - 1) * (bottom - top) / (maxHeight - 1).
PerspectiveSource(top, bottom) ==
    [d \in 1..MaxHeight(top, bottom) |->
        [num |-> top * (MaxHeight(top, bottom) - 1) + (d - 1) * (bottom - top),
         den |-> MaxHeight(top, bottom) - 1]]

\* XTalk-analysis.py:17-42  four_point_transform on a column
warpPerspective(image, top, bottom) ==
    Remap(image, PerspectiveSource(top, bottom), WarpPerspectiveBorder)

\* Corner rows four_point_transform may be given for a column of n rows:
\* inside the image, or up to two rows beyond either end.
CornerRows(n) == (0 - 2) .. (n + 1)

WarpInit ==
    /\ wop = "none"
    /\ wsrc \in WarpColumns
    /\ wcoord = << >>
    /\ wdst = << >>

\* No warp is studied.
WarpIdle ==
    /\ wop = "none"
    /\ wsrc = << >>
    /\ wcoord = << >>
    /\ wdst = << >>

\* correctDisp.py:46-49  shifted_right_image_color_affine
TranslationWarp ==
    /\ wop = "none"
    /\ \E vertical_shift \in VerticalShifts :
          /\ wcoord' = AffineSource(TranslationMatrix(vertical_shift), Len(wsrc))
          /\ wdst' = warpAffine(wsrc, TranslationMatrix(vertical_shift),
                                Len(wsrc), BORDER_REPLICATE)
    /\ wop' = "translation"
    /\ UNCHANGED <<wsrc, dispVars, xtVars, ordVars>>

\* correctDisp.py:146-149  adjusted_right_image_color
ScaleShiftWarp ==
    /\ wop = "none"
    /\ \E p \in Params :
          /\ wcoord' = AffineSource(AffineMatrix(p), Len(wsrc))
          /\ wdst' = warpAffine(wsrc, AffineMatrix(p), Len(wsrc), BORDER_REPLICATE)
    /\ wop' = "scale_shift"
    /\ UNCHANGED <<wsrc, dispVars, xtVars, ordVars>>

\* XTalk-analysis.py:39-42  warped
PerspectiveWarp ==
    /\ wop = "none"
    /\ \E top, bottom \in CornerRows(Len(wsrc)) :
          /\ bottom - top >= 2
          /\ wcoord' = PerspectiveSource(top, bottom)
          /\ wdst' = warpPerspective(wsrc, top, bottom)
    /\ wop' = "perspective"
    /\ UNCHANGED <<wsrc, dispVars, xtVars, ordVars>>

WarpNext == TranslationWarp \/ ScaleShiftWarp \/ PerspectiveWarp

(***************************************************************************)
(* XTalk-analysis.py: order_points                                         *)
(***************************************************************************)
MaxCoord == 2

\* Pixel positions approxPolyDP can return: integer <<x, y>> pairs.  They are
\* small integers, which the float32 rows of rect hold exactly.
Points == (0 .. MaxCoord) \X (0 .. MaxCoord)

\* approx.reshape(4, 2): four distinct points, in any order
FourPoints ==
    {q \in [1 .. 4 -> Points] : \A i, j \in 1 .. 4 : i # j => q[i] # q[j]}

\* np.argmin / np.argmax: the first index holding the extreme value
argmin(f) ==
    CHOOSE i \in DOMAIN f :
        /\ \A j \in DOMAIN f : f[i] <= f[j]
        /\ \A j \in DOMAIN f : j < i => f[j] > f[i]

argmax(f) ==
    CHOOSE i \in DOMAIN f :
        /\ \A j \in DOMAIN f : f[i] >= f[j]
        /\ \A j \in DOMAIN f : j < i => f[j] < f[i]

\* XTalk-analysis.py:8  pts.sum(axis=1)
CoordSum(points) == [i \in DOMAIN points |-> points[i][1] + points[i][2]]

\* XTalk-analysis.py:12  np.diff(pts, axis=1): y - x of each point
CoordDiff(points) == [i \in DOMAIN points |-> points[i][2] - points[i][1]]

\* XTalk-analysis.py:5-15  order_points: top-left, top-right, bottom-right,
\* bottom-left
order_points(points) ==
    << points[argmin(CoordSum(points))],
       points[argmin(CoordDiff(points))],
       points[argmax(CoordSum(points))],
       points[argmax(CoordDiff(points))] >>

OrderInit ==
    /\ opc = "called"
    /\ approx \in FourPoints
    /\ rect = << >>

\* order_points is not called.
OrderIdle ==
    /\ opc = "idle"
    /\ approx = << >>
    /\ rect = << >>

\* XTalk-analysis.py:19  rect = order_points(pts)
OrderPoints ==
    /\ opc = "called"
    /\ rect' = order_points(approx)
    /\ opc' = "returned"
    /\ UNCHANGED <<approx, dispVars, xtVars, warpVars>>

OrderNext == OrderPoints

(***************************************************************************)
(* Specifications                                                          *)
(***************************************************************************)
\* correctDisp.py from the keypoint cells on.
Init == DispInit /\ XTalkIdle /\ WarpIdle /\ OrderIdle
Spec == Init /\ [][DispNext]_vars

\* XTalk-analysis.py: main on every environment.
InitXTalk == DispIdle /\ XTalkInit /\ WarpIdle /\ OrderIdle
SpecXTalk == InitXTalk /\ [][XTalkNext]_vars

\* XTalk-analysis.py: main on all-grey captures of every 8-bit level.
InitGray == DispIdle /\ XTalkGrayInit /\ WarpIdle /\ OrderIdle
SpecGray == InitGray /\ [][XTalkNext]_vars

\* The warps of both scripts on columns of samples.
InitWarp == DispIdle /\ XTalkIdle /\ WarpInit /\ OrderIdle
SpecWarp == InitWarp /\ [][WarpNext]_vars

\* XTalk-analysis.py: order_points on every four distinct points of the grid.
InitOrder == DispIdle /\ XTalkIdle /\ WarpIdle /\ OrderInit
SpecOrder == InitOrder /\ [][OrderNext]_vars

(***************************************************************************)
(* Claims about correctDisp.py                                             *)
(***************************************************************************)
FilterDone == dpc # "filter"

\* The transform has been estimated (minimize returned).
Estimated == dpc \in {"affine", "warp", "save", "done"}

\* |leftKeypoint.y - rightKeypoint.y| does not exceed 3% of the image height.
C1_WithinThreePercent(m) ==
    LET d == keypoints_left[m.queryIdx].y - keypoints_right[m.trainIdx].y
    IN  (d <= 0 => 100 * (0 - d) <= 3 * image_height)
        /\ (d >= 0 => 100 * d <= 3 * image_height)

\* C1: at every point of the filter loop the filtered list holds exactly the
\* matches seen so far whose vertical disparity does not exceed 3% of the
\* image height (equality included), in their original order; after the
\* loop this is the whole input list.
C1_FilterExact ==
    /\ dpc = "filter" =>
          filtered_matches =
             SelectSeq(SubSeq(matches, 1, k - 1), C1_WithinThreePercent)
    /\ FilterDone =>
          filtered_matches = SelectSeq(matches, C1_WithinThreePercent)

\* C1 witness: the loop has ended having kept a match exactly at the
\* threshold and dropped another.
C1_Witness ==
    /\ dpc = "minimize"
    /\ \E j \in DOMAIN filtered_matches :
          100 * vertical_disparity(filtered_matches[j]) = 3 * image_height
    /\ \E j \in DOMAIN matches : matches[j] \notin Range(filtered_matches)
    /\ Len(filtered_matches) >= 2

\* C2: with fewer than 4 matches left by the filter the run does not go on
\* to estimate a transform, warp or save the right image.
C2_InsufficientCorrespondences ==
    (FilterDone /\ Len(filtered_matches) < 4) => ~Estimated

\* The right image is the left image shifted down by exactly 5 pixels:
\* every correspondence has rightY = leftY + 5, with two distinct y values.
C7_ShiftedDownBy5 ==
    /\ Len(left_points) >= 1
    /\ \A j \in DOMAIN left_points : right_points[j].y = left_points[j].y + 5
    /\ Cardinality({left_points[j].y : j \in DOMAIN left_points}) >= 2

\* Sum over the matches of (100 * (leftY - (rightY * scale + dy)))^2.
C7_ResidualSq ==
    LET r == [j \in DOMAIN left_points |->
                100 * left_points[j].y
                  - (right_points[j].y * result.scaling
                       + 100 * result.y_translation)]
    IN  SumSq(r, Len(left_points))

\* RMS residual below 0.5 pixel: mean of squares below 0.25.
C7_RmsBelowHalf == C7_ResidualSq < 2500 * Len(left_points)

\* C7 as stated: for the shifted-down-by-5 correspondences the estimator
\* returns scale = 1.0 and dy = +5.0 with residual RMS below 0.5.
C7_ShiftRecovered_Original ==
    (Estimated /\ C7_ShiftedDownBy5) =>
        /\ result.scaling = 100
        /\ result.y_translation = 5
        /\ C7_RmsBelowHalf

\* C7 amended: for the shifted-down-by-5 correspondences the estimator
\* returns scale = 1.0 and dy = -5.0 (the residual leftY - (rightY*scale + dy)
\* vanishes at dy = leftY - rightY), with residual RMS below 0.5.
C7_ShiftRecovered ==
    (Estimated /\ C7_ShiftedDownBy5) =>
        /\ result.scaling = 100
        /\ result.y_translation = 0 - 5
        /\ C7_RmsBelowHalf

\* C7 witness: the estimator has run on shifted-down-by-5 correspondences.
C7_Witness == Estimated /\ C7_ShiftedDownBy5

\* C8 as stated: the correction changes only the vertical coordinate; every
\* right keypoint keeps its x and the matrix maps x to x.
C8_HorizontalPreserved_Original ==
    Estimated =>
        /\ \A j \in DOMAIN right_points :
              adjusted_right_points[j].x = 100 * right_points[j].x
        /\ affine_matrix # << >> => affine_matrix[1] = <<100, 0, 0>>

\* C8 amended: the correction scales x by the estimated scaling and adds no
\* horizontal translation or shear, x' = scaling * x in the objective and in
\* the matrix row [scaling, 0, 0]; the x coordinates (and the horizontal
\* disparities) are unchanged exactly when the estimated scaling is 1.0.
C8_HorizontalScaled ==
    Estimated =>
        /\ \A j \in DOMAIN right_points :
              adjusted_right_points[j].x = result.scaling * right_points[j].x
        /\ affine_matrix # << >> =>
              /\ affine_matrix[1] = <<result.scaling, 0, 0>>
              /\ affine_matrix[2][1] = 0
        /\ (\A j \in DOMAIN right_points :
               100 * left_points[j].x - adjusted_right_points[j].x
                 = 100 * (left_points[j].x - right_points[j].x))
             <=> result.scaling = 100

\* C8 witness: a scaling other than 1.0 was estimated and the matrix built.
C8_Witness ==
    /\ Estimated
    /\ result.scaling # 100
    /\ affine_matrix # << >>
    /\ Len(right_points) >= 2

(***************************************************************************)
(* Claims about XTalk-analysis.py                                          *)
(***************************************************************************)
Called(fn) == \E i \in DOMAIN calls : calls[i].fn = fn

\* Both images load, both masks yield a contour and both polygon
\* approximations of the largest contour have exactly four vertices.
AllChecksPass ==
    /\ env.left_readable /\ env.right_readable
    /\ env.contours_left > 0 /\ env.corners_left = 4
    /\ env.contours_right > 0 /\ env.corners_right = 4

\* C3: when a load, contour or four-corner check fails for either image,
\* none of four_point_transform, compute_crosstalk and plot_crosstalk_map is
\* ever executed and nothing partial is produced, and the run ends having
\* printed its failure; plot_crosstalk_map is reached only when every check
\* passed for both images.
C3_FailsWithoutPartialResult ==
    /\ ~AllChecksPass =>
          /\ ~Called("four_point_transform")
          /\ ~Called("compute_crosstalk")
          /\ ~Called("plot_crosstalk_map")
          /\ warped_left = NoImage /\ warped_right = NoImage
          /\ left_crosstalk = Unbound /\ right_crosstalk = Unbound
          /\ xpc \notin {"rectify", "crosstalk", "plot"}
          /\ xpc = "returned" => Len(printed) = 1
    /\ Called("plot_crosstalk_map") => AllChecksPass /\ printed = << >>

\* C3 witness: the left image passed every check, the right polygon has five
\* vertices, and the run has ended as a reported failure.
C3_Witness ==
    /\ xpc = "returned"
    /\ env.left_readable /\ env.right_readable
    /\ env.contours_left > 0 /\ env.corners_left = 4
    /\ env.contours_right > 0 /\ env.corners_right = 5
    /\ printed = << "Could not detect four corners for right image." >>

\* C4: a run that ended in a failure returned a value that differs from the
\* value a fully successful run returns.
C4_FailureValueDistinct ==
    (xpc = "returned" /\ printed # << >>) => returned # SuccessValue

\* C5: every call of compute_crosstalk is on two linear-RGB images, each the
\* result of four_point_transform applied to the output of
\* sRGB_to_linearRGB: conversion, then rectification, then crosstalk.
C5_LinearBeforeCrosstalk ==
    \A i \in DOMAIN calls :
        calls[i].fn = "compute_crosstalk" =>
            /\ calls[i].colorSpace = <<"linearRGB", "linearRGB">>
            /\ warped_left.colorSpace = "linearRGB" /\ warped_left.rectified
            /\ warped_right.colorSpace = "linearRGB" /\ warped_right.rectified
            /\ i = 5
            /\ \A j \in 1..2 : /\ calls[j].fn = "sRGB_to_linearRGB"
                               /\ calls[j].colorSpace = <<"sRGB">>
            /\ \A j \in 3..4 : /\ calls[j].fn = "four_point_transform"
                               /\ calls[j].colorSpace = <<"linearRGB">>

\* C5 witness: compute_crosstalk has been called.
C5_Witness == Called("compute_crosstalk") /\ xpc = "plot"

\* The crosstalk maps of two identical all-grey images have been computed.
C6_GrayPairComputed ==
    /\ xpc \in {"plot", "returned"}
    /\ Called("compute_crosstalk")
    /\ env.left_pix = env.right_pix
    /\ warped_left.pix[1] = warped_left.pix[2]
    /\ warped_left.pix[2] = warped_left.pix[3]

\* |num/den - 1| <= 1/100
C6_WithinOnePercentOfOne(q) ==
    /\ 100 * (q.den - q.num) <= q.den
    /\ 100 * (q.num - q.den) <= q.den

\* C6 as stated: for identical all-grey images of every level, 0 included,
\* both maps are 1.0 up to a negligible deviation.
C6_GrayIsOne_Original ==
    C6_GrayPairComputed =>
        /\ C6_WithinOnePercentOfOne(left_crosstalk)
        /\ C6_WithinOnePercentOfOne(right_crosstalk)

\* C6 amended: for identical all-grey images of level v both maps are
\* v / (v + 1e-6): exactly 0.0 at v = 0, and below 1.0 by less than 1% for
\* every v >= 1e-4, which every non-zero linearised 8-bit level is.
C6_GrayIsOneExceptBlack ==
    C6_GrayPairComputed =>
        LET v == warped_left.pix[1]
        IN  /\ left_crosstalk = [num |-> v, den |-> v + 1]
            /\ right_crosstalk = left_crosstalk
            /\ v = 0 \/ v >= 100
            /\ v = 0 => left_crosstalk.num = 0 /\ left_crosstalk.den > 0
            /\ v >= 100 =>
                  /\ C6_WithinOnePercentOfOne(left_crosstalk)
                  /\ left_crosstalk.num < left_crosstalk.den

\* C6 witness: the maps of two identical black images have been computed.
C6_Witness == C6_GrayPairComputed /\ warped_left.pix[1] = 0

\* The images have been converted.
C10_Converted == left_image_linear # NoImage /\ right_image_linear # NoImage

\* C10: each 8-bit sample c8, normalised to c = c8/255, is transformed by
\* exactly one branch, c/12.92 when c <= 0.04045 and ((c+0.055)/1.055)^2.4
\* otherwise; the transform is non-decreasing, also from the last sample of
\* the first branch (10) to the first of the second (11); 0 maps to 0 and
\* 255 to 1.
C10_LinearTransfer ==
    C10_Converted =>
        \A ch \in 1..3 :
            LET l8 == left_image.pix[ch]
                r8 == right_image.pix[ch]
                c  == (l8 * 1000000) \div 255
                l  == left_image_linear.pix[ch]
                r  == right_image_linear.pix[ch]
            IN  /\ c <= 40450 => l = (c * 100) \div 1292
                /\ c > 40450 => l = Pow24(((c + 55000) * 1000) \div 1055)
                /\ (c <= 40450) <=> (l8 <= 10)
                /\ l8 <= r8 => l <= r
                /\ l8 = 0 => l = 0
                /\ l8 = 255 => l = 1000000
                /\ l >= 0 /\ l <= 1000000

\* C10 witness: samples 10 and 11, either side of the branch boundary, have
\* been converted.
C10_Witness ==
    /\ C10_Converted
    /\ left_image.pix[1] = 10
    /\ right_image.pix[1] = 11

(***************************************************************************)
(* Claim about the warps                                                   *)
(***************************************************************************)
\* The source coordinate of destination row d lies outside the source image.
C9_OutsideSource(d) ==
    \/ wcoord[d].num < 0
    \/ wcoord[d].num > (Len(wsrc) - 1) * wcoord[d].den

C11_OrderIsPermutation ==
    opc = "returned" =>
        \A i \in DOMAIN approx :
            Cardinality({j \in DOMAIN rect : rect[j] = approx[i]}) = 1
====
